---- MODULE Spec2Model ----
(***************************************************************************)
(* Verification model of vector4HN: the report/context cache pipeline of   *)
(* src/tui.py (ProcessingScreen, ReportScreen), the comment fetcher of     *)
(* src/hn.py and the cloud provider of src/analyze.py.                     *)
(*                                                                         *)
(* Coroutines are modelled at the granularity of asyncio: the code between *)
(* two awaits is one atomic action; every await is a point at which other  *)
(* handlers and workers may run.                                           *)
(***************************************************************************)
EXTENDS Integers, Sequences, FiniteSets, TLC

(***************************************************************************)
(* Bounds of the model.                                                    *)
(***************************************************************************)
StoryIds == {1}             \* story ids the user opens
OtherIds == {2}             \* stories with files on disk that are not opened
MaxClock == 1               \* timestamps (seconds) a run can observe: 1..MaxClock
MaxTurns == 1               \* chat turns kept in one chat_history / one report file
MaxOrphans == 1             \* popped ReportScreens whose chat worker is still in flight

(***************************************************************************)
(* Values.                                                                 *)
(***************************************************************************)
None == 0                                   \* Python None, where an id is expected
EmptyStory == [id |-> None]                 \* {} : story.get("id") is None
StoryOf(s) == [id |-> s]                    \* the item the HN API returns for s
NoUrlText == "No URL provided."             \* hn.py:75
FailedText == "Failed to extract text: x"   \* hn.py:98
Articles == {"article-v1"}                  \* what fetch_article_text may return
CommentLists == {<<"c1">>}                  \* what fetch_comments may return
ErrorReport == "Error analyzing story: x"   \* analyze.py:220
GoodReport == "# Title"                     \* the provider's content
ErrorAnswer == "Error generating answer: x" \* analyze.py:278
GoodAnswer == "answer"                      \* what chat_with_context returned
Questions == {"q1"}                         \* non-blank questions
NoName == <<None, 0>>                       \* filename = ""
NoFile == [present |-> FALSE, story |-> EmptyStory, article_text |-> "",
           comments |-> <<>>, chat_history |-> <<>>]

VARIABLES
  reports,    \* disk: the set of files reports/hn_{id}_{ts}.md, each with its content
  contexts,   \* disk: story id -> reports/hn_{id}_context.json (NoFile when absent)
  clock,      \* the last second datetime.now() returned
  screen,     \* top of the screen stack: dashboard, processing, report, crashed
  run,        \* the ProcessingScreen and its process_story worker
  rs,         \* the ReportScreen on the stack and its run_chat_query worker
  orphans,    \* ReportScreens already popped whose chat worker has not ended yet
  ev,         \* the chat turn that ended in the last step, if any (history variable)
  bfs,        \* one call of HNClient.fetch_comments: its arguments and locals
  gem,        \* one call of GeminiProvider.chat: its arguments and locals
  ana,        \* the Analyzer, the environment, the usage log and the call in progress
  art,        \* one call of HNClient.fetch_article_text
  top,        \* one call of HNClient.fetch_top_stories
  dash        \* the DashboardScreen: its page, title, table and load_stories workers

vars == <<reports, contexts, clock, screen, run, rs, orphans, ev, bfs, gem, ana, art, top, dash>>
tui == <<reports, contexts, clock, screen, run, rs, orphans, ev>>

(***************************************************************************)
(* Files.                                                                  *)
(***************************************************************************)
Name(f) == <<f.id, f.ts>>

\* glob.glob(f"reports/hn_{story_id}_*.md")
GlobReports(reps, s) == {f \in reps : f.id = s}

\* os.path.exists(filename)
Exists(reps, name) == \E f \in reps : Name(f) = name

FileAt(reps, name) == CHOOSE f \in reps : Name(f) = name

\* f.read(): the whole file, the report and every appended chat log section
ReadReport(reps, name) ==
  LET f == FileAt(reps, name) IN [body |-> f.body, chat |-> f.chat]

\* open(filename, "w"); f.write(report)
WriteReport(reps, name, body) ==
  {f \in reps : Name(f) # name}
    \cup {[id |-> name[1], ts |-> name[2], body |-> body, chat |-> <<>>]}

\* open(filename, "a"): appends one "## Chat Log" section, creating the file if needed
AppendChatLog(reps, name, q, a) ==
  IF Exists(reps, name)
    THEN {f \in reps : Name(f) # name}
           \cup {[FileAt(reps, name) EXCEPT !.chat = Append(@, <<q, a>>)]}
    ELSE reps \cup {[id |-> name[1], ts |-> name[2], body |-> "", chat |-> <<<<q, a>>>>]}

\* os.remove(filename)
RemoveReport(reps, name) == {f \in reps : Name(f) # name}

\* json.dump({"story":..., "article_text":..., "comments":..., "chat_history": []})
NewContext(story, article_text, comments) ==
  [present |-> TRUE, story |-> story, article_text |-> article_text,
   comments |-> comments, chat_history |-> <<>>]

\* mutant: the context file is rewritten without the new history
SaveChatHistoryStale(ctx, history) == ctx

\* data = json.load(f); data["chat_history"] = self.chat_history; json.dump(data)
SaveChatHistory(ctx, history) == [ctx EXCEPT !.chat_history = history]

(***************************************************************************)
(* ProcessingScreen.                                                       *)
(***************************************************************************)
NoRun == [story_id |-> None, pc |-> "none", origin |-> "none", kind |-> "none",
          has_reports |-> FALSE, first |-> NoName, story |-> EmptyStory,
          article_text |-> "", comments |-> <<>>,
          report |-> [body |-> "", chat |-> <<>>], filename |-> NoName,
          chat_history |-> <<>>, loaded |-> FALSE, calls |-> <<>>,
          clients |-> 0, closed |-> 0]

\* client = HNClient(): one more client made by this worker
NewClient(r) == [r EXCEPT !.clients = @ + 1]

\* mutant: the client is never closed
CloseClientForgotten(r) == r

\* await client.close() returned: one more close of the worker's client
CloseClient(r) == [r EXCEPT !.closed = @ + 1]

\* ProcessingScreen.__init__ and on_mount
NewRun(s, origin) == [NoRun EXCEPT !.story_id = s, !.pc = "start", !.origin = origin]

\* if existing_reports and os.path.exists(context_filename)
IsCacheHit(matches, ctx) == matches # {} /\ ctx.present

\* mutant: the transition always passes an empty chat history
TransitionHistoryEmpty(r) == <<>>

\* chat_history if 'chat_history' in locals() else []
TransitionHistory(r) == IF r.loaded THEN r.chat_history ELSE <<>>

(***************************************************************************)
(* ReportScreen. saved (a history field) tells that chat_history is the    *)
(* list the screen was built with or the one its last turn wrote to the    *)
(* context file.                                                           *)
(***************************************************************************)
NoScreen == [story |-> EmptyStory, article_text |-> "", comments |-> <<>>,
             report_md |-> [body |-> "", chat |-> <<>>], filename |-> NoName,
             ctxid |-> None, chat_history |-> <<>>, is_error |-> FALSE,
             disabled |-> FALSE, chat |-> "none", question |-> "", saved |-> TRUE]

\* report_md.startswith("ANALYSIS_ERROR:")
IsErrorReport(report_md) == report_md.body = "ANALYSIS_ERROR: x"

\* ReportScreen.__init__
NewReportScreen(r, report, filename) ==
  [story |-> r.story, article_text |-> r.article_text, comments |-> r.comments,
   report_md |-> report, filename |-> filename, ctxid |-> r.story_id,
   chat_history |-> TransitionHistory(r), is_error |-> IsErrorReport(report),
   disabled |-> FALSE, chat |-> "idle", question |-> "", saved |-> TRUE]

NoEvent == [kind |-> "none", before |-> <<>>, after |-> <<>>, filename |-> NoName,
            ctxid |-> None, question |-> "", answer |-> "",
            report_ok |-> FALSE, context_ok |-> FALSE, sections |-> 0,
            on_stack |-> FALSE]

\* no fetch_comments call and no GeminiProvider.chat call is being followed
NoTraversal == [pc |-> "none"]
NoChat == [pc |-> "none"]
\* no Analyzer, fetch_article_text or fetch_top_stories call is being followed
NoAnalyzer == [pc |-> "none"]
NoArticle == [pc |-> "none"]
NoTop == [pc |-> "none"]
\* the DashboardScreen is not being followed
NoDash == [pc |-> "none"]

(***************************************************************************)
(* Initial states: the reports directory as an earlier session may have    *)
(* left it. Each story has no files, a report alone (context deleted or    *)
(* never written), a context alone (report deleted by a retry that did not *)
(* finish), or both; the stories that are not opened have both.            *)
(***************************************************************************)
AllIds == StoryIds \cup OtherIds
LegacyFile(s) == [id |-> s, ts |-> 0, body |-> GoodReport, chat |-> <<>>]
LegacyContext(s) == NewContext(StoryOf(s), "article-v0", <<"c0">>)

Init ==
  /\ \E withReport \in SUBSET StoryIds :
       reports = {LegacyFile(s) : s \in withReport \cup OtherIds}
  /\ \E withContext \in SUBSET StoryIds :
       contexts = [s \in AllIds |->
                     IF s \in withContext \cup OtherIds THEN LegacyContext(s) ELSE NoFile]
  /\ clock = 1
  /\ screen = "dashboard"
  /\ run = NoRun
  /\ rs = NoScreen
  /\ orphans = {}
  /\ ev = NoEvent
  /\ bfs = NoTraversal
  /\ gem = NoChat
  /\ ana = NoAnalyzer /\ art = NoArticle /\ top = NoTop /\ dash = NoDash

(***************************************************************************)
(* DashboardScreen.on_data_table_row_selected: push ProcessingScreen, whose *)
(* on_mount starts the process_story worker.                               *)
(***************************************************************************)
SelectStory(s) ==
  /\ UNCHANGED <<bfs, gem, ana, art, top, dash>>
  /\ screen = "dashboard"
  /\ screen' = "processing"
  /\ run' = NewRun(s, "select")
  /\ ev' = NoEvent
  /\ UNCHANGED <<reports, contexts, clock, rs, orphans>>

(***************************************************************************)
(* _process_story_implementation, from its start to its first await.       *)
(* Cache hit: both files are read, then `await client.close()`.            *)
(* Otherwise: `await client.fetch_item(self.story_id)`.                    *)
(***************************************************************************)
StartHit(r, f, ctx) ==
  [r EXCEPT !.kind = "hit", !.pc = "hit_close", !.filename = Name(f),
            !.report = [body |-> f.body, chat |-> f.chat],
            !.story = ctx.story, !.article_text = ctx.article_text,
            !.comments = ctx.comments, !.chat_history = ctx.chat_history,
            !.loaded = TRUE]

\* mutant: `if not story` skips the story fetch
StartMissNoFetch(r, matches, first) ==
  [r EXCEPT !.kind = IF matches = {} THEN "miss" ELSE "partial",
            !.pc = "fetch_story", !.has_reports = (matches # {}),
            !.first = first]

StartMiss(r, matches, first) ==
  [r EXCEPT !.kind = IF matches = {} THEN "miss" ELSE "partial",
            !.pc = "fetch_story", !.has_reports = (matches # {}),
            !.first = first, !.calls = Append(@, "fetch_story")]

ProcessStart ==
  /\ UNCHANGED <<bfs, gem, ana, art, top, dash>>
  /\ screen = "processing" /\ run.pc = "start"
  /\ LET matches == GlobReports(reports, run.story_id)
         ctx == contexts[run.story_id]
     IN IF IsCacheHit(matches, ctx)
          THEN \E f \in matches : run' = StartHit(NewClient(run), f, ctx)
          ELSE IF matches = {}
                 THEN run' = StartMiss(NewClient(run), matches, NoName)
                 ELSE \E f \in matches :
                        run' = StartMiss(NewClient(run), matches, Name(f))
  /\ ev' = NoEvent
  /\ UNCHANGED <<reports, contexts, clock, screen, rs, orphans>>

\* story = await client.fetch_item(...); then await client.fetch_article_text(url)
FetchStoryReturns(story) ==
  /\ UNCHANGED <<bfs, gem, ana, art, top, dash>>
  /\ screen = "processing" /\ run.pc = "fetch_story"
  /\ run' = [run EXCEPT !.story = story, !.pc = "fetch_article",
                        !.calls = Append(@, "fetch_article")]
  /\ ev' = NoEvent
  /\ UNCHANGED <<reports, contexts, clock, screen, rs, orphans>>

\* mutant: fetch_article_text(None) raises instead of returning its sentinel
ArticleResultsRaising(story) ==
  IF story = EmptyStory THEN {} ELSE Articles \cup {FailedText}

\* what fetch_article_text(story.get("url", "")) can return for this story
ArticleResults(story) ==
  IF story = EmptyStory THEN {NoUrlText} ELSE Articles \cup {FailedText}

\* what fetch_comments(story.get("kids", []), limit=100) can return for this story
CommentResults(story) ==
  IF story = EmptyStory THEN {<<>>} ELSE CommentLists \cup {<<>>}

\* article_text = await ...; then await client.fetch_comments(...)
FetchArticleReturns(text) ==
  /\ UNCHANGED <<bfs, gem, ana, art, top, dash>>
  /\ screen = "processing" /\ run.pc = "fetch_article"
  /\ text \in ArticleResults(run.story)
  /\ run' = [run EXCEPT !.article_text = text, !.pc = "fetch_comments",
                        !.calls = Append(@, "fetch_comments")]
  /\ ev' = NoEvent
  /\ UNCHANGED <<reports, contexts, clock, screen, rs, orphans>>

\* comments = await ...; then await client.close()
FetchCommentsReturns(cs) ==
  /\ UNCHANGED <<bfs, gem, ana, art, top, dash>>
  /\ screen = "processing" /\ run.pc = "fetch_comments"
  /\ cs \in CommentResults(run.story)
  /\ run' = [run EXCEPT !.comments = cs, !.pc = "close"]
  /\ ev' = NoEvent
  /\ UNCHANGED <<reports, contexts, clock, screen, rs, orphans>>

\* mutant: the report is generated whether or not one exists
NeedsGenerationAlways(r) == TRUE

\* if not existing_reports
NeedsGeneration(r) == ~r.has_reports

\* "Transition": pop the ProcessingScreen, push the ReportScreen
Transition(r, report, filename) ==
  /\ screen' = "report"
  /\ rs' = NewReportScreen(r, report, filename)
  /\ run' = [NoRun EXCEPT !.pc = "done", !.story_id = r.story_id, !.kind = r.kind,
                          !.origin = r.origin, !.calls = r.calls,
                          !.clients = r.clients, !.closed = r.closed]

\* client.close() returned on the fetch path. With no report yet: await
\* analyzer.generate_report(...). With a report: read it, write the context,
\* transition.
CloseReturns ==
  /\ UNCHANGED <<bfs, gem, ana, art, top, dash>>
  /\ screen = "processing" /\ run.pc = "close"
  /\ IF NeedsGeneration(run)
       THEN /\ run' = [CloseClient(run) EXCEPT !.pc = "generate",
                                  !.calls = Append(@, "generate_report")]
            /\ UNCHANGED <<reports, contexts, screen, rs>>
       ELSE /\ Exists(reports, run.first)
            /\ contexts' = [contexts EXCEPT ![run.story_id] =
                              NewContext(run.story, run.article_text, run.comments)]
            /\ Transition([CloseClient(run) EXCEPT !.calls = Append(@, "write_context")],
                          ReadReport(reports, run.first), run.first)
            /\ UNCHANGED reports
  /\ ev' = NoEvent
  /\ UNCHANGED <<clock, orphans>>

\* mutant: the context file is written before the report file
PersistStepsSwapped == <<"write_context", "write_report">>

\* with open(filename, "w") ... f.write(report), then with open(context_filename, "w")
PersistSteps == <<"write_report", "write_context">>

\* report = await analyzer.generate_report(...): the report file is written,
\* then the context file, then the transition, with no await in between.
GenerateReturns(body, now) ==
  /\ UNCHANGED <<bfs, gem, ana, art, top, dash>>
  /\ screen = "processing" /\ run.pc = "generate"
  /\ now \in clock..MaxClock
  /\ clock' = now
  /\ LET filename == <<run.story_id, now>>
         written == WriteReport(reports, filename, body)
     IN /\ reports' = written
        /\ contexts' = [contexts EXCEPT ![run.story_id] =
                          NewContext(run.story, run.article_text, run.comments)]
        /\ Transition([run EXCEPT !.calls = @ \o PersistSteps],
                      [body |-> body, chat |-> <<>>], filename)
  /\ ev' = NoEvent
  /\ UNCHANGED orphans

\* client.close() returned on the cache-hit path: transition
HitCloseReturns ==
  /\ UNCHANGED <<bfs, gem, ana, art, top, dash>>
  /\ screen = "processing" /\ run.pc = "hit_close"
  /\ Transition(CloseClient(run), run.report, run.filename)
  /\ ev' = NoEvent
  /\ UNCHANGED <<reports, contexts, clock, orphans>>

(***************************************************************************)
(* ReportScreen.on_input_submitted: a non-blank question disables the      *)
(* input and starts the run_chat_query worker, which awaits                *)
(* analyzer.chat_with_context(...).                                        *)
(***************************************************************************)
Sections(reps, name) == IF Exists(reps, name) THEN Len(FileAt(reps, name).chat) ELSE 0

SubmitQuestion(q) ==
  /\ UNCHANGED <<bfs, gem, ana, art, top, dash>>
  /\ screen = "report" /\ ~rs.disabled
  /\ Len(rs.chat_history) < 2 * MaxTurns
  /\ Sections(reports, rs.filename) < MaxTurns
  /\ rs' = [rs EXCEPT !.disabled = TRUE, !.chat = "inflight", !.question = q]
  /\ ev' = NoEvent
  /\ UNCHANGED <<reports, contexts, clock, screen, run, orphans>>

\* self.chat_history.append(user); self.chat_history.append(assistant)
TurnHistory(history, q, answer) ==
  history \o <<[role |-> "user", content |-> q],
               [role |-> "assistant", content |-> answer]>>

(***************************************************************************)
(* _run_chat_query_implementation after chat_with_context returned, for    *)
(* the worker of screen w (on the stack or already popped). report_ok and  *)
(* context_ok say whether the two writes went through; a failed write is   *)
(* caught and leaves its file as it was.                                   *)
(***************************************************************************)
ChatDisk(w, answer, report_ok, context_ok, on_stack) ==
  LET history == TurnHistory(w.chat_history, w.question, answer)
  IN /\ reports' = IF report_ok
                     THEN AppendChatLog(reports, w.filename, w.question, answer)
                     ELSE reports
     /\ contexts' = IF context_ok /\ contexts[w.ctxid].present
                      THEN [contexts EXCEPT ![w.ctxid] = SaveChatHistory(@, history)]
                      ELSE contexts
     /\ ev' = [kind |-> "chat", before |-> w.chat_history, after |-> history,
               filename |-> w.filename, ctxid |-> w.ctxid,
               question |-> w.question, answer |-> answer,
               report_ok |-> report_ok, context_ok |-> context_ok,
               sections |-> Sections(reports, w.filename), on_stack |-> on_stack]

\* mutant: the input is re-enabled only after a turn that did not raise
TurnEndsUnlessRaised(w, raised) ==
  [w EXCEPT !.disabled = raised, !.chat = "idle", !.question = ""]

\* finally: self.query_one(Input).disabled = False
TurnEnds(w, raised) == [w EXCEPT !.disabled = FALSE, !.chat = "idle", !.question = ""]

ChatReturns(answer, report_ok, context_ok) ==
  /\ UNCHANGED <<bfs, gem, ana, art, top, dash>>
  /\ screen = "report" /\ rs.chat = "inflight"
  /\ ChatDisk(rs, answer, report_ok, context_ok, TRUE)
  /\ rs' = TurnEnds([rs EXCEPT !.chat_history = TurnHistory(@, rs.question, answer),
                                !.saved = context_ok /\ contexts[rs.ctxid].present],
                    FALSE)
  /\ UNCHANGED <<clock, screen, run, orphans>>

(***************************************************************************)
(* An exception inside the try of _run_chat_query_implementation: raised   *)
(* by the awaited call (stage "call", nothing was appended) or by the      *)
(* display of the answer (stage "display", after the two appends to        *)
(* chat_history and before the writes). The except clause logs it; the     *)
(* finally clause runs.                                                    *)
(***************************************************************************)
ChatRaises(stage, answer) ==
  /\ UNCHANGED <<bfs, gem, ana, art, top, dash>>
  /\ screen = "report" /\ rs.chat = "inflight"
  /\ rs' = TurnEnds([rs EXCEPT !.chat_history =
                                IF stage = "display"
                                  THEN TurnHistory(@, rs.question, answer) ELSE @,
                                !.saved = IF stage = "display" THEN FALSE ELSE @],
                    TRUE)
  /\ ev' = [NoEvent EXCEPT !.kind = "raised", !.on_stack = TRUE,
                           !.question = rs.question]
  /\ UNCHANGED <<reports, contexts, clock, screen, run, orphans>>

(***************************************************************************)
(* Popping a ReportScreen whose chat worker is in flight. The code cancels *)
(* nothing itself; the worker either is cancelled at once or outlives the  *)
(* screen until it is cancelled or its LLM call returns.                   *)
(***************************************************************************)
Worker(w) == [filename |-> w.filename, ctxid |-> w.ctxid,
              chat_history |-> w.chat_history, question |-> w.question]

AfterPop(w) ==
  IF w.chat = "inflight"
    THEN {orphans} \cup (IF Cardinality(orphans) < MaxOrphans
                           THEN {orphans \cup {Worker(w)}} ELSE {})
    ELSE {orphans}

OrphanReturns(w, answer, report_ok, context_ok) ==
  /\ UNCHANGED <<bfs, gem, ana, art, top, dash>>
  /\ w \in orphans
  /\ Sections(reports, w.filename) < MaxTurns
  /\ ChatDisk(w, answer, report_ok, context_ok, FALSE)
  /\ orphans' = orphans \ {w}
  /\ UNCHANGED <<clock, screen, run, rs>>

OrphanCancelled(w) ==
  /\ UNCHANGED <<bfs, gem, ana, art, top, dash>>
  /\ w \in orphans
  /\ orphans' = orphans \ {w}
  /\ ev' = NoEvent
  /\ UNCHANGED <<reports, contexts, clock, screen, run, rs>>

\* ReportScreen.action_back
Back ==
  /\ UNCHANGED <<bfs, gem, ana, art, top, dash>>
  /\ screen = "report"
  /\ screen' = "dashboard"
  /\ orphans' \in AfterPop(rs)
  /\ rs' = NoScreen
  /\ ev' = NoEvent
  /\ UNCHANGED <<reports, contexts, clock, run>>

(***************************************************************************)
(* ReportScreen._retry_implementation (key r, or the retry button).        *)
(* remove_ok = FALSE: os.remove raised, the handler notifies and returns.  *)
(* Otherwise the screen is popped and ProcessingScreen(str(story.get("id")))*)
(* is built: int("None") raises for an empty story, after the pop.         *)
(***************************************************************************)
RetryTarget(w) == w.story.id

Retry(remove_ok) ==
  /\ UNCHANGED <<bfs, gem, ana, art, top, dash>>
  /\ screen = "report"
  /\ ev' = NoEvent
  /\ IF Exists(reports, rs.filename) /\ ~remove_ok
       THEN UNCHANGED <<reports, contexts, clock, screen, run, rs, orphans>>
       ELSE /\ reports' = RemoveReport(reports, rs.filename)
            /\ rs' = NoScreen
            /\ IF RetryTarget(rs) = None
                 THEN /\ screen' = "crashed"
                      /\ orphans' = {}
                      /\ UNCHANGED run
                 ELSE /\ screen' = "processing"
                      /\ run' = NewRun(RetryTarget(rs), "retry")
                      /\ orphans' \in AfterPop(rs)
            /\ UNCHANGED <<contexts, clock>>

Answers == {GoodAnswer}
ReportBodies == {GoodReport, ErrorReport}

(***************************************************************************)
(* The application with every fetch succeeding: the processing runs, the   *)
(* chat turns and the workers that outlive their screen.                   *)
(***************************************************************************)
Next ==
  \/ \E s \in StoryIds : SelectStory(s)
  \/ ProcessStart
  \/ \E s \in StoryIds : FetchStoryReturns(StoryOf(s)) /\ s = run.story_id
  \/ \E text \in Articles : FetchArticleReturns(text)
  \/ \E cs \in CommentLists : FetchCommentsReturns(cs)
  \/ CloseReturns
  \/ \E body \in ReportBodies, now \in 1..MaxClock : GenerateReturns(body, now)
  \/ HitCloseReturns
  \/ \E q \in Questions : SubmitQuestion(q)
  \/ \E a \in Answers, ro \in BOOLEAN, co \in BOOLEAN : ChatReturns(a, ro, co)
  \/ \E w \in orphans, a \in Answers, ro \in BOOLEAN, co \in BOOLEAN :
       OrphanReturns(w, a, ro, co)
  \/ \E w \in orphans : OrphanCancelled(w)
  \/ Back
  \/ \E ok \in BOOLEAN : Retry(ok)

Spec == Init /\ [][Next]_vars

(***************************************************************************)
(* The processing runs with fetches that may fail: fetch_item returns {}   *)
(* for the story, fetch_article_text returns one of its error strings,     *)
(* fetch_comments returns fewer comments or none. No question is asked.    *)
(***************************************************************************)
NextFetch ==
  \/ \E s \in StoryIds : SelectStory(s)
  \/ ProcessStart
  \/ \E s \in StoryIds : FetchStoryReturns(StoryOf(s)) /\ s = run.story_id
  \/ FetchStoryReturns(EmptyStory)
  \/ \E text \in Articles \cup {NoUrlText, FailedText} : FetchArticleReturns(text)
  \/ \E cs \in CommentLists \cup {<<>>} : FetchCommentsReturns(cs)
  \/ CloseReturns
  \/ \E body \in ReportBodies, now \in 1..MaxClock : GenerateReturns(body, now)
  \/ HitCloseReturns
  \/ Back
  \/ \E ok \in BOOLEAN : Retry(ok)

SpecFetch == Init /\ [][NextFetch]_vars

(***************************************************************************)
(* The ReportScreen and its chat turns, with every way a turn can end: the *)
(* answer, the error string of chat_with_context, an exception, a failed   *)
(* write of the report file or of the context file.                        *)
(***************************************************************************)
NextChat ==
  \/ \E s \in StoryIds : SelectStory(s)
  \/ ProcessStart
  \/ \E s \in StoryIds : FetchStoryReturns(StoryOf(s)) /\ s = run.story_id
  \/ \E text \in Articles : FetchArticleReturns(text)
  \/ \E cs \in CommentLists : FetchCommentsReturns(cs)
  \/ CloseReturns
  \/ \E body \in ReportBodies, now \in 1..MaxClock : GenerateReturns(body, now)
  \/ HitCloseReturns
  \/ \E q \in Questions : SubmitQuestion(q)
  \/ \E a \in Answers \cup {ErrorAnswer}, ro \in BOOLEAN, co \in BOOLEAN :
       ChatReturns(a, ro, co)
  \/ \E stage \in {"call", "display"}, a \in Answers \cup {ErrorAnswer} :
       ChatRaises(stage, a)
  \/ \E w \in orphans, a \in Answers, ro \in BOOLEAN, co \in BOOLEAN :
       OrphanReturns(w, a, ro, co)
  \/ \E w \in orphans : OrphanCancelled(w)
  \/ Back

SpecChat == Init /\ [][NextChat]_vars

(***************************************************************************)
(* HNClient.fetch_comments (src/hn.py). A call is followed from its        *)
(* arguments to its return. The item map the HN API serves is one of a few *)
(* forests over the ids 1..NumItems, in which at most one item is deleted, *)
(* dead or fails to be fetched.                                            *)
(***************************************************************************)
NumItems == 12              \* comment ids 1..NumItems
MaxLimit == 13              \* limit arguments 0..MaxLimit
BatchSize == 10             \* queue[:10]
ItemIds == 1..NumItems
Shapes == {"flat", "chain", "heap", "two", "ring", "twice"}
Faults == {"deleted", "dead", "failed"}

SeqOfSet(S) ==
  LET RECURSIVE Asc(_)
      Asc(T) == IF T = {} THEN <<>>
                ELSE LET x == CHOOSE y \in T : \A z \in T : y <= z
                     IN <<x>> \o Asc(T \ {x})
  IN Asc(S)

\* the "kids" of item i in each forest
KidsOf(shape, i) ==
  CASE shape = "flat" -> <<>>
    [] shape = "chain" -> IF i < NumItems THEN <<i + 1>> ELSE <<>>
    [] shape = "heap" -> SeqOfSet({k \in {2 * i, 2 * i + 1} : k <= NumItems})
    [] shape = "two" -> IF i <= 2
                          THEN SeqOfSet({k \in ItemIds : k > 2 /\ k % 2 = i % 2})
                          ELSE <<>>
    [] shape = "ring" -> <<(i % NumItems) + 1>>
    [] shape = "twice" -> IF i = 1 THEN <<2, 2>> ELSE IF i = 2 THEN <<1>> ELSE <<>>

\* the story's "kids": the root ids passed to fetch_comments
RootsOf(shape) ==
  CASE shape = "flat" -> SeqOfSet(ItemIds)
    [] shape = "two" -> <<1, 2>>
    [] shape = "twice" -> <<1, 1>>
    [] OTHER -> <<1>>

EmptyItem == [id |-> None, deleted |-> FALSE, dead |-> FALSE, kids |-> <<>>]

\* fetch_item(id): the item's JSON, or {} when the request fails
FetchItem(cfg, i) ==
  IF cfg.bad = i /\ cfg.fault = "failed"
    THEN EmptyItem
    ELSE [id |-> i, deleted |-> (cfg.bad = i /\ cfg.fault = "deleted"),
          dead |-> (cfg.bad = i /\ cfg.fault = "dead"), kids |-> KidsOf(cfg.shape, i)]

\* mutant: dead comments are not filtered
SkippedIgnoringDead(res) == res = EmptyItem \/ res.deleted

\* if not res or res.get("deleted") or res.get("dead"): continue
Skipped(res) == res = EmptyItem \/ res.deleted \/ res.dead

\* res["depth"] = depth; comments.append(res)
Tagged(res, depth) == [id |-> res.id, deleted |-> res.deleted, dead |-> res.dead,
                       depth |-> depth]

\* mutant: the children are enqueued at their parent's depth
ChildrenSameDepth(res, depth) == [k \in DOMAIN res.kids |-> <<res.kids[k], depth>>]

\* queue.extend([(kid_id, depth + 1) for kid_id in res["kids"]])
Children(res, depth) == [k \in DOMAIN res.kids |-> <<res.kids[k], depth + 1>>]

\* mutant: the loop over the results never breaks at the limit
ReachedLimitNever(count, limit) == FALSE

\* mutant: the loop over the results breaks one comment before the limit
ReachedLimitEarly(count, limit) == count + 1 >= limit

\* if fetched_count >= limit: break
ReachedLimit(count, limit) == count >= limit

(***************************************************************************)
(* for i, res in enumerate(results): ... , from index i on. The loop has   *)
(* no await: it runs to its end or to its break in one step.               *)
(***************************************************************************)
\* mutant: an id whose result is skipped is queued again
QueueAfterSkipRequeued(queue, entry) == Append(queue, entry)

\* continue: a skipped result leaves the queue as it is
QueueAfterSkip(queue, entry) == queue

RECURSIVE ProcessResults(_, _, _, _, _, _, _)
ProcessResults(results, batch, i, comments, fetched_count, queue, limit) ==
  IF i > Len(results)
    THEN [comments |-> comments, fetched_count |-> fetched_count, queue |-> queue]
  ELSE IF Skipped(results[i])
    THEN ProcessResults(results, batch, i + 1, comments, fetched_count,
                        QueueAfterSkip(queue, batch[i]), limit)
  ELSE IF ReachedLimit(fetched_count + 1, limit)
    THEN [comments |-> Append(comments, Tagged(results[i], batch[i][2])),
          fetched_count |-> fetched_count + 1,
          queue |-> queue \o Children(results[i], batch[i][2])]
  ELSE ProcessResults(results, batch, i + 1,
                      Append(comments, Tagged(results[i], batch[i][2])),
                      fetched_count + 1,
                      queue \o Children(results[i], batch[i][2]), limit)

Take(s, n) == SubSeq(s, 1, IF Len(s) < n THEN Len(s) ELSE n)
Drop(s, n) == SubSeq(s, (IF Len(s) < n THEN Len(s) ELSE n) + 1, Len(s))

\* comments = []; queue = [(id, 0) for id in item_ids]; fetched_count = 0
NewTraversal(cfg, limit) ==
  [pc |-> "loop", cfg |-> cfg, limit |-> limit,
   queue |-> [k \in DOMAIN RootsOf(cfg.shape) |-> <<RootsOf(cfg.shape)[k], 0>>],
   batch |-> <<>>, first_done |-> 0, comments |-> <<>>, fetched_count |-> 0,
   requested |-> {}]

Configs == {[shape |-> s, bad |-> b, fault |-> f] :
              s \in Shapes, b \in ItemIds, f \in Faults}
            \cup {[shape |-> s, bad |-> None, fault |-> "none"] : s \in Shapes}

TuiIdle ==
  /\ reports = {} /\ contexts = [s \in AllIds |-> NoFile] /\ clock = 1
  /\ screen = "dashboard" /\ run = NoRun /\ rs = NoScreen /\ orphans = {}
  /\ ev = NoEvent

InitComments ==
  /\ TuiIdle
  /\ gem = NoChat
  /\ ana = NoAnalyzer /\ art = NoArticle /\ top = NoTop /\ dash = NoDash
  /\ \E cfg \in Configs, limit \in 0..MaxLimit : bfs = NewTraversal(cfg, limit)

\* mutant: the loop goes on while the queue is not empty, whatever was fetched
LoopGoesOnUnbounded(b) == b.queue # <<>>

\* while queue and fetched_count < limit
LoopGoesOn(b) == b.queue # <<>> /\ b.fetched_count < b.limit

\* batch_with_depth = queue[:10]; queue = queue[10:]; the fetch_item tasks start
TakeBatch ==
  /\ bfs.pc = "loop" /\ LoopGoesOn(bfs)
  /\ bfs' = [bfs EXCEPT !.pc = "gather", !.batch = Take(bfs.queue, BatchSize),
                        !.queue = Drop(bfs.queue, BatchSize), !.first_done = 0,
                        !.requested = @ \cup {bfs.queue[k][1] :
                                        k \in 1..Len(Take(bfs.queue, BatchSize))}]
  /\ UNCHANGED <<tui, gem, ana, art, top, dash>>

\* the loop condition fails: return comments
ReturnComments ==
  /\ bfs.pc = "loop" /\ ~LoopGoesOn(bfs)
  /\ bfs' = [bfs EXCEPT !.pc = "done"]
  /\ UNCHANGED <<tui, gem, ana, art, top, dash>>

(***************************************************************************)
(* results = await asyncio.gather(...): the fetches of a batch complete    *)
(* in any order (first is the one that completes first); gather returns    *)
(* the results in the order of the tasks. Then the loop over the results.  *)
(***************************************************************************)
\* mutant: the result of the fetch that completes first comes first
GatherResultsAsCompleted(cfg, batch, first) ==
  LET order == <<first>> \o SeqOfSet(DOMAIN batch \ {first})
  IN [k \in DOMAIN batch |-> FetchItem(cfg, batch[order[k]][1])]

\* asyncio.gather(*tasks): results[k] is the result of tasks[k]
GatherResults(cfg, batch, first) ==
  [k \in DOMAIN batch |-> FetchItem(cfg, batch[k][1])]

Gathered(first) ==
  /\ bfs.pc = "gather"
  /\ first \in 1..Len(bfs.batch)
  /\ LET results == GatherResults(bfs.cfg, bfs.batch, first)
         st == ProcessResults(results, bfs.batch, 1, bfs.comments,
                              bfs.fetched_count, bfs.queue, bfs.limit)
     IN bfs' = [bfs EXCEPT !.pc = "loop", !.first_done = first,
                           !.comments = st.comments, !.queue = st.queue,
                           !.fetched_count = st.fetched_count]
  /\ UNCHANGED <<tui, gem, ana, art, top, dash>>

NextComments ==
  \/ TakeBatch
  \/ ReturnComments
  \/ \E first \in 1..BatchSize : Gathered(first)

SpecComments == InitComments /\ [][NextComments]_vars

\* The calls followed to their end: the item maps whose filtered item, if any,
\* is one of the first two ids, with the smallest and the largest limits.
InitCommentsLive ==
  /\ TuiIdle
  /\ gem = NoChat
  /\ ana = NoAnalyzer /\ art = NoArticle /\ top = NoTop /\ dash = NoDash
  /\ \E cfg \in {c \in Configs : c.bad \in {None, 1, 2}},
        limit \in {0, 1, NumItems, MaxLimit} : bfs = NewTraversal(cfg, limit)

\* The event loop resumes the coroutine, and every fetch_item call ends: the
\* client has a timeout (hn.py:10) and fetch_item catches what the request
\* raises. So a step that can be taken is eventually taken.
SpecCommentsLive == InitCommentsLive /\ [][NextComments]_vars /\ WF_vars(NextComments)

(***************************************************************************)
(* GeminiProvider.chat (src/analyze.py). The backend call                  *)
(* client.aio.models.generate_content either returns a response or raises; *)
(* script[k] is what its k-th call does.                                   *)
(***************************************************************************)
MaxAttempts == 3            \* the attempts the tests expect of the provider
MaxMessages == 2            \* messages passed to chat: 0..MaxMessages
Roles == {"user", "assistant", "system"}
Outcomes == {"ok", "fail"}

\* role user stays, assistant becomes model, any other message is skipped
RECURSIVE GeminiContents(_)
GeminiContents(messages) ==
  IF messages = <<>> THEN <<>>
  ELSE LET msg == Head(messages)
           rest == GeminiContents(Tail(messages))
       IN IF msg = "user" THEN <<"user">> \o rest
          ELSE IF msg = "assistant" THEN <<"model">> \o rest
          ELSE rest

InitGemini ==
  /\ TuiIdle
  /\ bfs = NoTraversal
  /\ ana = NoAnalyzer /\ art = NoArticle /\ top = NoTop /\ dash = NoDash
  /\ \E n \in 0..MaxMessages : \E messages \in [1..n -> Roles] :
       \E script \in [1..MaxAttempts -> Outcomes] :
         gem = [pc |-> "start", messages |-> messages, script |-> script,
                contents |-> <<>>, calls |-> 0, result |-> "none"]

\* the messages are converted and generate_content is called and awaited
GeminiSends ==
  /\ gem.pc = "start"
  /\ gem' = [gem EXCEPT !.pc = "await", !.contents = GeminiContents(gem.messages),
                        !.calls = @ + 1]
  /\ UNCHANGED <<tui, bfs, ana, art, top, dash>>

\* the awaited call returns (chat returns the content) or raises (chat has no
\* handler around it: the exception leaves chat)
GeminiAnswers ==
  /\ gem.pc = "await"
  /\ gem' = [gem EXCEPT !.pc = "done",
                        !.result = IF gem.script[gem.calls] = "ok"
                                     THEN "content" ELSE "raised"]
  /\ UNCHANGED <<tui, bfs, ana, art, top, dash>>

NextGemini == GeminiSends \/ GeminiAnswers

SpecGemini == InitGemini /\ [][NextGemini]_vars

(***************************************************************************)
(* Analyzer (src/analyze.py): the provider property and _setup_provider,   *)
(* set_provider, generate_report and chat_with_context, with the process   *)
(* environment they read and write and the usage log of src/logger.py.     *)
(* "unset" is a variable that is not in os.environ (os.getenv gives None   *)
(* or the default), "absent" a keyword argument that was not passed.       *)
(***************************************************************************)
MaxCalls == 2               \* generate_report / chat_with_context calls followed
DefaultGeminiModel == "gemini-3-flash-preview"
DefaultOllamaModel == "llama3"
Content == "content"                         \* response['content']
EnvProviders == {"unset", "Gemini", "openai"}     \* LLM_PROVIDER at start-up
ProviderTypes == {"ollama", "gemini", "Gemini", "openai"}
KeyArgs == {"", "key"}                            \* api_key=...
ModelArgs == {"absent", "m2"}                     \* model=...
NoHistory == <<"None">>                           \* history=None
Histories == {NoHistory, <<>>, <<"user", "assistant">>}
NoProvider == [kind |-> "None", model |-> ""]       \* self._provider is None
NoSetting == [ptype |-> "", ok |-> FALSE, kept |-> TRUE, had_key |-> FALSE]

\* os.getenv(name, default)
GetEnv(env, name, default) == IF env[name] = "unset" THEN default ELSE env[name]

\* Python truth of a string, of None and of a missing keyword
Falsy(v) == v \in {"unset", "absent", "", "None"}

\* a or b
Either(a, b) == IF Falsy(a) THEN b ELSE a

\* str.lower()
Lower(s) == IF s = "Gemini" THEN "gemini" ELSE s

GeminiProviderOf(model) == [kind |-> "gemini", model |-> model]
OllamaProviderOf(model) == [kind |-> "ollama", model |-> model]

(***************************************************************************)
(* _setup_provider: the gemini branch raises without a key (or without the *)
(* google-genai package) and returns a GeminiProvider otherwise; the else  *)
(* branch reads OLLAMA_HOST and OLLAMA_MODEL and ends without a return     *)
(* statement, so the function returns None.                                *)
(***************************************************************************)
SetupProvider(env, has_gemini) ==
  IF Lower(GetEnv(env, "LLM_PROVIDER", "ollama")) = "gemini"
    THEN IF Falsy(env.GEMINI_API_KEY) \/ ~has_gemini
           THEN [raised |-> TRUE, value |-> NoProvider]
           ELSE [raised |-> FALSE,
                 value |-> GeminiProviderOf(GetEnv(env, "GEMINI_MODEL", DefaultGeminiModel))]
    ELSE [raised |-> FALSE, value |-> NoProvider]

\* the provider property: resolve on first use, keep what was resolved
ProviderProperty(a) ==
  IF a.provider = NoProvider THEN SetupProvider(a.env, a.has_gemini)
  ELSE [raised |-> FALSE, value |-> a.provider]

\* mutant: an identifier that is neither gemini nor ollama selects Ollama
KnownProviderOrDefault(ptype) == IF ptype = "gemini" THEN "gemini" ELSE "ollama"

\* if provider_type == "gemini" ... elif provider_type == "ollama" ... else: return False
KnownProvider(ptype) == IF ptype \in {"gemini", "ollama"} THEN ptype ELSE "rejected"

\* os.environ[...] = ... after the provider object was built
EnvAfterSet(env, kind, ptype, kw_model) ==
  LET named == [env EXCEPT !.LLM_PROVIDER = ptype]
  IN IF kw_model = "absent" THEN named
     ELSE IF kind = "gemini" THEN [named EXCEPT !.GEMINI_MODEL = kw_model]
     ELSE [named EXCEPT !.OLLAMA_MODEL = kw_model]

\* set_provider(provider_type, model=..., api_key=...): what it returns and
\* what it leaves in self._provider and os.environ
SetProviderResult(a, ptype, kw_model, kw_key) ==
  LET kind == KnownProvider(ptype)
      unchanged == [ok |-> FALSE, provider |-> a.provider, env |-> a.env]
  IN IF kind = "gemini"
       THEN IF Falsy(Either(kw_key, a.env.GEMINI_API_KEY)) \/ ~a.has_gemini
              THEN unchanged
              ELSE [ok |-> TRUE,
                    provider |-> GeminiProviderOf(
                      Either(kw_model, GetEnv(a.env, "GEMINI_MODEL", DefaultGeminiModel))),
                    env |-> EnvAfterSet(a.env, kind, ptype, kw_model)]
     ELSE IF kind = "ollama"
       THEN [ok |-> TRUE,
             provider |-> OllamaProviderOf(
               Either(kw_model, GetEnv(a.env, "OLLAMA_MODEL", DefaultOllamaModel))),
             env |-> EnvAfterSet(a.env, kind, ptype, kw_model)]
     ELSE unchanged

\* mutant: the new prompt is put before the prior turns
ChatMessagesPromptFirst(history) == IF history = NoHistory \/ history = <<>> THEN <<"prompt">>
                                    ELSE <<"prompt">> \o history

\* mutant: messages is the caller's list itself, so the append reaches it
HistoryAfterCallAliased(history) == IF history = NoHistory \/ history = <<>> THEN history
                                    ELSE history \o <<"prompt">>

\* the caller's list after the call: messages is a new list, and extend copies
\* the turns into it
HistoryAfterCall(history) == history

\* messages = []; if history: messages.extend(history); messages.append(prompt)
\* ("prompt" is the turn {'role': 'user', 'content': prompt})
ChatMessages(history) == IF history = NoHistory \/ history = <<>> THEN <<"prompt">>
                         ELSE history \o <<"prompt">>

\* what generate_report and chat_with_context send to provider.chat
MessagesOf(op, history) == IF op = "report" THEN <<"prompt">> ELSE ChatMessages(history)

\* return f"Error analyzing story: ..." / f"Error generating answer: ..."
ErrorString(op) == IF op = "report" THEN ErrorReport ELSE ErrorAnswer

\* mutant: the exception is not caught
Unhandled(op) == [result |-> "", raised |-> TRUE]

\* except Exception as e: return the error string
Handled(op) == [result |-> ErrorString(op), raised |-> FALSE]

\* mutant: log_usage is called with its default operation type
OperationTypeDefault(op) == "generation"

\* operation_type="report_generation" / operation_type="chat_query"
OperationType(op) == IF op = "report" THEN "report_generation" ELSE "chat_query"

\* log_usage: one row appended to the stats file; a failing write is caught
LogUsage(stats, type, log_ok) == IF log_ok THEN Append(stats, type) ELSE stats

InitAnalyzer ==
  /\ TuiIdle
  /\ bfs = NoTraversal /\ gem = NoChat /\ art = NoArticle /\ top = NoTop /\ dash = NoDash
  /\ \E p \in EnvProviders, key \in {"unset", "key"}, hg \in BOOLEAN :
       ana = [pc |-> "idle",
              env |-> [LLM_PROVIDER |-> p, GEMINI_API_KEY |-> key,
                       GEMINI_MODEL |-> "unset", OLLAMA_MODEL |-> "unset"],
              has_gemini |-> hg, provider |-> NoProvider, stats |-> <<>>,
              calls |-> 0, op |-> "", history |-> NoHistory, caller |-> NoHistory,
              sent |-> <<>>,
              result |-> "", raised |-> FALSE, logged |-> 0, outcome |-> "",
              log_ok |-> FALSE, last |-> NoSetting]

\* analyzer.set_provider(...), as SettingsScreen.save_settings calls it
SetProvider(ptype, kw_model, kw_key) ==
  /\ ana.pc \in {"idle", "await", "done"}
  /\ LET r == SetProviderResult(ana, ptype, kw_model, kw_key)
     IN ana' = [ana EXCEPT !.provider = r.provider, !.env = r.env,
                  !.last = [ptype |-> ptype, ok |-> r.ok,
                            kept |-> (r.provider = ana.provider /\ r.env = ana.env),
                            had_key |-> ~Falsy(Either(kw_key, ana.env.GEMINI_API_KEY))]]
  /\ UNCHANGED <<tui, bfs, gem, art, top, dash>>

\* generate_report / chat_with_context up to `await self.provider.chat(...)`:
\* the provider is resolved inside the try; a failed resolution and a None
\* provider (None has no chat) end the call in the except clause
StartCall(op, history) ==
  /\ ana.pc \in {"idle", "done"} /\ ana.calls < MaxCalls
  /\ LET r == ProviderProperty(ana)
         began == [ana EXCEPT !.op = op, !.history = history, !.calls = @ + 1,
                              !.caller = IF op = "chat" THEN HistoryAfterCall(history)
                                         ELSE history,
                              !.sent = <<>>, !.logged = Len(ana.stats),
                              !.outcome = "", !.log_ok = FALSE, !.last = NoSetting]
     IN IF r.raised \/ r.value = NoProvider
          THEN ana' = [began EXCEPT !.pc = "done", !.result = Handled(op).result,
                                    !.raised = Handled(op).raised,
                                    !.outcome = "unresolved"]
          ELSE ana' = [began EXCEPT !.pc = "await", !.provider = r.value,
                                    !.sent = MessagesOf(op, history),
                                    !.result = "", !.raised = FALSE]
  /\ UNCHANGED <<tui, bfs, gem, art, top, dash>>

\* provider.chat returned or raised: log_usage and return response['content'],
\* or the except clause
ProviderReturns(outcome, log_ok) ==
  /\ ana.pc = "await"
  /\ IF outcome = "ok"
       THEN ana' = [ana EXCEPT !.pc = "done", !.result = Content, !.raised = FALSE,
                      !.stats = LogUsage(@, OperationType(ana.op), log_ok),
                      !.outcome = outcome, !.log_ok = log_ok, !.last = NoSetting]
       ELSE ana' = [ana EXCEPT !.pc = "done", !.result = Handled(ana.op).result,
                      !.raised = Handled(ana.op).raised,
                      !.outcome = outcome, !.last = NoSetting]
  /\ UNCHANGED <<tui, bfs, gem, art, top, dash>>

NextAnalyzer ==
  \/ \E ptype \in ProviderTypes, kw_model \in ModelArgs, kw_key \in KeyArgs :
       SetProvider(ptype, kw_model, kw_key)
  \/ \E op \in {"report", "chat"}, history \in Histories : StartCall(op, history)
  \/ \E outcome \in Outcomes, log_ok \in BOOLEAN : ProviderReturns(outcome, log_ok)

SpecAnalyzer == InitAnalyzer /\ [][NextAnalyzer]_vars

(***************************************************************************)
(* HNClient.fetch_article_text (src/hn.py). A URL is the sequence of its   *)
(* characters; NoUrl is None.                                              *)
(***************************************************************************)
MaxUrlLen == 5              \* URLs of 0..MaxUrlLen characters
UrlChars == {"x", ".", "p", "d", "f", "P"}
NoUrl == <<"None">>
PdfSuffix == <<".", "p", "d", "f">>
PdfText == "PDF content extraction not supported."   \* hn.py:79
NoExtractText == "Could not extract article text."   \* hn.py:95

\* str.lower(), character by character
LowerChar(c) == IF c = "P" THEN "p" ELSE c
LowerUrl(url) == [k \in DOMAIN url |-> LowerChar(url[k])]

\* str.endswith(suffix)
EndsWith(s, suffix) ==
  /\ Len(s) >= Len(suffix)
  /\ SubSeq(s, Len(s) - Len(suffix) + 1, Len(s)) = suffix

\* if not url
UrlMissing(url) == url = NoUrl \/ url = <<>>

\* mutant: the extension check is skipped
IsPdfUrlNever(url) == FALSE

\* url.lower().endswith('.pdf')
IsPdfUrl(url) == EndsWith(LowerUrl(url), PdfSuffix)

Urls == {NoUrl} \cup UNION {[1..n -> UrlChars] : n \in 0..MaxUrlLen}

InitArticle ==
  /\ TuiIdle
  /\ bfs = NoTraversal /\ gem = NoChat /\ ana = NoAnalyzer /\ top = NoTop /\ dash = NoDash
  /\ \E url \in Urls : art = [pc |-> "start", url |-> url, requests |-> 0, result |-> ""]

\* the two early returns, or the request is sent and awaited
ArticleStart ==
  /\ art.pc = "start"
  /\ art' = IF UrlMissing(art.url)
              THEN [art EXCEPT !.pc = "done", !.result = NoUrlText]
            ELSE IF IsPdfUrl(art.url)
              THEN [art EXCEPT !.pc = "done", !.result = PdfText]
            ELSE [art EXCEPT !.pc = "await", !.requests = @ + 1]
  /\ UNCHANGED <<tui, bfs, gem, ana, top, dash>>

\* the response: text was extracted, nothing was extracted, or the request or
\* the extraction raised
ArticleResponds(outcome) ==
  /\ art.pc = "await"
  /\ art' = [art EXCEPT !.pc = "done",
               !.result = CASE outcome = "text" -> "article-v1"
                            [] outcome = "empty" -> NoExtractText
                            [] OTHER -> FailedText]
  /\ UNCHANGED <<tui, bfs, gem, ana, top, dash>>

NextArticle ==
  \/ ArticleStart
  \/ \E outcome \in {"text", "empty", "raised"} : ArticleResponds(outcome)

SpecArticle == InitArticle /\ [][NextArticle]_vars

(***************************************************************************)
(* HNClient.fetch_top_stories (src/hn.py): the ranked id list is fetched,  *)
(* sliced, and the items of the slice are fetched concurrently.            *)
(***************************************************************************)
NumTop == 5                 \* ranked lists of 0..NumTop ids
MaxPage == 3                \* page arguments 1..MaxPage
MaxPageSize == 3            \* limit arguments 1..MaxPageSize

\* the ranked list of n ids: rank k holds id n + 1 - k
Ranked(n) == [k \in 1..n |-> n + 1 - k]

\* s[start:end] as Python computes it, negative indices included
PyIndex(i, len) == IF i < 0 THEN (IF i + len < 0 THEN 0 ELSE i + len)
                   ELSE IF i > len THEN len ELSE i
PySlice(s, start, end) == SubSeq(s, PyIndex(start, Len(s)) + 1, PyIndex(end, Len(s)))

\* mutant: pages are counted from 0
SliceStartFromZero(page, limit) == page * limit

\* start = (page - 1) * limit
SliceStart(page, limit) == (page - 1) * limit

\* end = start + limit
SliceEnd(page, limit) == SliceStart(page, limit) + limit

\* fetch_item(id) for a story id: the item, or {} when the request failed
TopItem(i, failing) == IF i \in failing THEN EmptyStory ELSE StoryOf(i)

\* [s for s in stories if s]
RECURSIVE NonEmpty(_)
NonEmpty(stories) ==
  IF stories = <<>> THEN <<>>
  ELSE IF Head(stories) = EmptyStory THEN NonEmpty(Tail(stories))
  ELSE <<Head(stories)>> \o NonEmpty(Tail(stories))

InitTop ==
  /\ TuiIdle
  /\ bfs = NoTraversal /\ gem = NoChat /\ ana = NoAnalyzer /\ art = NoArticle /\ dash = NoDash
  /\ \E n \in 0..NumTop, page \in 1..MaxPage, limit \in 1..MaxPageSize :
       \E failing \in SUBSET (1..n) :
         top = [pc |-> "start", page |-> page, limit |-> limit,
                all_ids |-> Ranked(n), failing |-> failing, list_ok |-> TRUE,
                ids |-> <<>>, first_done |-> 0, result |-> <<>>]

\* response = await self.client.get(.../topstories.json): the list arrives and
\* is sliced and the fetch_item tasks are gathered, or the request fails and
\* the except clause returns []
TopListReturns(ok) ==
  /\ top.pc = "start"
  /\ top' = IF ok
              THEN [top EXCEPT !.pc = "gather",
                      !.ids = PySlice(top.all_ids, SliceStart(top.page, top.limit),
                                      SliceEnd(top.page, top.limit))]
              ELSE [top EXCEPT !.pc = "done", !.list_ok = FALSE, !.result = <<>>]
  /\ UNCHANGED <<tui, bfs, gem, ana, art, dash>>

\* stories = await asyncio.gather(...): the fetches complete in any order
\* (first is the one that completes first), the results come in task order
TopGathered(first) ==
  /\ top.pc = "gather"
  /\ first \in 1..Len(top.ids) \/ (top.ids = <<>> /\ first = 0)
  /\ top' = [top EXCEPT !.pc = "done", !.first_done = first,
               !.result = NonEmpty([k \in DOMAIN top.ids |->
                                      TopItem(top.ids[k], top.failing)])]
  /\ UNCHANGED <<tui, bfs, gem, ana, art, dash>>

NextTop ==
  \/ \E ok \in BOOLEAN : TopListReturns(ok)
  \/ \E first \in 0..MaxPageSize : TopGathered(first)

SpecTop == InitTop /\ [][NextTop]_vars

(***************************************************************************)
(* DashboardScreen (src/tui.py): the page, the title, the table and the    *)
(* load_stories workers. load_stories is a @work coroutine that is not     *)
(* exclusive: on_mount and every next page, previous page and refresh      *)
(* start one more worker, and the earlier ones keep running. A worker's    *)
(* body starts when the event loop first runs it, and each of its two      *)
(* awaits lets the key handlers and the other workers run.                 *)
(***************************************************************************)
MaxLoads == 3               \* load_stories workers started
NumRanked == 120            \* story ids in topstories.json
DashLimit == 50             \* self.limit = 50
FirstPage == 1              \* self.page = 1

\* a load_stories worker that was created and has not run yet
NewLoad == [pc |-> "scheduled", page |-> 0, stories |-> <<>>, ok |-> TRUE,
            clients |-> 0, closed |-> 0]

\* fetch_top_stories(page, limit) when every request succeeds
TopStoriesOf(page, limit) ==
  PySlice(Ranked(NumRanked), SliceStart(page, limit), SliceEnd(page, limit))

\* start_rank = (self.page - 1) * self.limit + 1
StartRank(page, limit) == (page - 1) * limit + 1

\* for idx, story in enumerate(stories, start_rank): table.add_row(str(idx), ...)
Rows(stories, start_rank) ==
  [k \in DOMAIN stories |-> <<start_rank + k - 1, stories[k]>>]

\* DashboardScreen.__init__, compose and on_mount, which calls load_stories()
NewDashboard ==
  [pc |-> "mounted", page |-> FirstPage, limit |-> DashLimit, title |-> FirstPage,
   rows |-> <<>>, loading |-> FALSE, workers |-> <<NewLoad>>]

InitDash ==
  /\ TuiIdle
  /\ bfs = NoTraversal /\ gem = NoChat
  /\ ana = NoAnalyzer /\ art = NoArticle /\ top = NoTop
  /\ dash = NewDashboard

\* self.load_stories(): the @work decorator creates one more worker
LoadStories(d) == [d EXCEPT !.workers = Append(@, NewLoad)]

\* if self.page > 1
PrevPageAllowed(page) == page > 1

\* action_next_page: self.page += 1; update_title(); load_stories()
NextPage ==
  /\ dash.pc = "mounted" /\ screen = "dashboard"
  /\ dash.page < MaxPage /\ Len(dash.workers) < MaxLoads
  /\ dash' = LoadStories([dash EXCEPT !.page = @ + 1, !.title = dash.page + 1])
  /\ UNCHANGED <<tui, bfs, gem, ana, art, top>>

\* action_prev_page: the same with self.page -= 1, only above page 1
PrevPage ==
  /\ dash.pc = "mounted" /\ screen = "dashboard"
  /\ Len(dash.workers) < MaxLoads
  /\ IF PrevPageAllowed(dash.page)
       THEN dash' = LoadStories([dash EXCEPT !.page = @ - 1, !.title = dash.page - 1])
       ELSE UNCHANGED dash
  /\ UNCHANGED <<tui, bfs, gem, ana, art, top>>

\* action_refresh: load_stories()
Refresh ==
  /\ dash.pc = "mounted" /\ screen = "dashboard"
  /\ Len(dash.workers) < MaxLoads
  /\ dash' = LoadStories(dash)
  /\ UNCHANGED <<tui, bfs, gem, ana, art, top>>

\* the worker's body up to its first await: table.loading = True;
\* client = HNClient(); fetch_top_stories(page=self.page, limit=self.limit)
LoadStarts(w) ==
  /\ dash.pc = "mounted" /\ w \in DOMAIN dash.workers
  /\ dash.workers[w].pc = "scheduled"
  /\ dash' = [dash EXCEPT !.loading = TRUE,
                !.workers[w] = [NewClient(@) EXCEPT !.pc = "fetch", !.page = dash.page]]
  /\ UNCHANGED <<tui, bfs, gem, ana, art, top>>

\* stories = await client.fetch_top_stories(...): the page's stories, or [] when
\* the list request failed; then await client.close()
LoadFetched(w, ok) ==
  /\ dash.pc = "mounted" /\ w \in DOMAIN dash.workers
  /\ dash.workers[w].pc = "fetch"
  /\ dash' = [dash EXCEPT
                !.workers[w] = [@ EXCEPT !.pc = "close", !.ok = ok,
                                  !.stories = IF ok THEN TopStoriesOf(dash.workers[w].page,
                                                                   dash.limit)
                                              ELSE <<>>]]
  /\ UNCHANGED <<tui, bfs, gem, ana, art, top>>

\* client.close() returned: table.clear(), the rows of this worker's stories
\* ranked from the page the dashboard is on now, table.loading = False
LoadShown(w) ==
  /\ dash.pc = "mounted" /\ w \in DOMAIN dash.workers
  /\ dash.workers[w].pc = "close"
  /\ dash' = [dash EXCEPT
                !.rows = Rows(dash.workers[w].stories, StartRank(dash.page, dash.limit)),
                !.loading = FALSE,
                !.workers[w] = [CloseClient(@) EXCEPT !.pc = "done"]]
  /\ UNCHANGED <<tui, bfs, gem, ana, art, top>>

NextDash ==
  \/ NextPage
  \/ PrevPage
  \/ Refresh
  \/ \E w \in 1..MaxLoads : LoadStarts(w)
  \/ \E w \in 1..MaxLoads, ok \in BOOLEAN : LoadFetched(w, ok)
  \/ \E w \in 1..MaxLoads : LoadShown(w)

SpecDash == InitDash /\ [][NextDash]_vars

(***************************************************************************)
(* The HNClient objects of the application: the loads of the dashboard     *)
(* (on_mount and refresh) and the processing runs started from its table,  *)
(* over the reports directory of Init. The keys reach the dashboard only   *)
(* while it is the top screen; its workers go on under the other screens.  *)
(***************************************************************************)
InitClients ==
  /\ \E withReport \in SUBSET StoryIds :
       reports = {LegacyFile(s) : s \in withReport \cup OtherIds}
  /\ \E withContext \in SUBSET StoryIds :
       contexts = [s \in AllIds |->
                     IF s \in withContext \cup OtherIds THEN LegacyContext(s) ELSE NoFile]
  /\ clock = 1 /\ screen = "dashboard" /\ run = NoRun /\ rs = NoScreen
  /\ orphans = {} /\ ev = NoEvent
  /\ bfs = NoTraversal /\ gem = NoChat
  /\ ana = NoAnalyzer /\ art = NoArticle /\ top = NoTop
  /\ dash = NewDashboard

NextClients ==
  \/ Refresh
  \/ \E w \in 1..MaxLoads : LoadStarts(w)
  \/ \E w \in 1..MaxLoads, ok \in BOOLEAN : LoadFetched(w, ok)
  \/ \E w \in 1..MaxLoads : LoadShown(w)
  \/ \E s \in StoryIds : SelectStory(s)
  \/ ProcessStart
  \/ \E s \in StoryIds : FetchStoryReturns(StoryOf(s)) /\ s = run.story_id
  \/ FetchStoryReturns(EmptyStory)
  \/ \E text \in Articles \cup {NoUrlText, FailedText} : FetchArticleReturns(text)
  \/ \E cs \in CommentLists \cup {<<>>} : FetchCommentsReturns(cs)
  \/ CloseReturns
  \/ \E body \in ReportBodies, now \in 1..MaxClock : GenerateReturns(body, now)
  \/ HitCloseReturns
  \/ Back

SpecClients == InitClients /\ [][NextClients]_vars

(***************************************************************************)
(* Properties.                                                             *)
(***************************************************************************)
Count(calls, op) == Cardinality({i \in DOMAIN calls : calls[i] = op})

IsPrefix(s, full) == Len(s) <= Len(full) /\ \A i \in DOMAIN s : s[i] = full[i]

RunStarts == run.pc = "start" /\ run'.pc # "start"
RunEnds == run.pc # "done" /\ run'.pc = "done"
BothOnDisk(s) == GlobReports(reports, s) # {} /\ contexts[s].present

\* C1: a processing run that starts with a report file and the context file of
\* its story on disk takes the cache-hit path, calls none of fetch-story,
\* fetch-article, fetch-comments and generate_report, writes nothing, and hands
\* the ReportScreen the report file's content and the context file's story,
\* article text, comments and chat history as they are stored.
CacheHitLoadsFromDisk ==
  [][/\ (RunStarts /\ BothOnDisk(run.story_id)) =>
          /\ run'.pc = "hit_close" /\ run'.calls = <<>>
          /\ \E f \in reports :
               /\ f.id = run.story_id
               /\ run'.filename = <<f.id, f.ts>>
               /\ run'.report = [body |-> f.body, chat |-> f.chat]
          /\ run'.story = contexts[run.story_id].story
          /\ run'.article_text = contexts[run.story_id].article_text
          /\ run'.comments = contexts[run.story_id].comments
          /\ run'.chat_history = contexts[run.story_id].chat_history
     /\ (RunEnds /\ run.pc = "hit_close") =>
          /\ run'.calls = <<>>
          /\ reports' = reports /\ contexts' = contexts
          /\ screen' = "report"
          /\ rs'.report_md = run.report /\ rs'.filename = run.filename
          /\ rs'.story = run.story /\ rs'.article_text = run.article_text
          /\ rs'.comments = run.comments /\ rs'.chat_history = run.chat_history
    ]_vars

\* C1 witness: a cache-hit run has loaded a report with a chat log section and a
\* non-empty chat history, and is about to hand them over
CacheHitReached ==
  /\ screen = "processing" /\ run.pc = "hit_close" /\ run.kind = "hit"
  /\ run.chat_history # <<>> /\ run.report.chat # <<>>

OneCallEach(calls) ==
  /\ Count(calls, "fetch_story") = 1 /\ Count(calls, "fetch_article") = 1
  /\ Count(calls, "fetch_comments") = 1 /\ Count(calls, "generate_report") = 1

\* C2 as claimed: every run that does not start with both files on disk makes
\* exactly one call to each of fetch-story, fetch-article, fetch-comments and
\* generate_report and ends with a report file and a context file on disk.
CacheMissCallsEachOnce ==
  [][/\ (RunStarts /\ ~BothOnDisk(run.story_id)) => run'.kind # "hit"
     /\ (RunEnds /\ run.kind # "hit") =>
          /\ OneCallEach(run'.calls)
          /\ GlobReports(reports', run.story_id) # {}
          /\ contexts'[run.story_id].present
    ]_vars

\* C2 amended: a run that starts with no report file of its story makes exactly
\* one call to each of the four operations; a run that starts with a report file
\* but no context file makes exactly one call to each of the three fetches and
\* none to generate_report; both end with a report file and a context file.
CacheMissCallsByCase ==
  [][/\ (RunStarts /\ ~BothOnDisk(run.story_id)) =>
          /\ run'.kind = IF GlobReports(reports, run.story_id) = {}
                           THEN "miss" ELSE "partial"
     /\ (RunEnds /\ run.kind # "hit") =>
          /\ Count(run'.calls, "fetch_story") = 1
          /\ Count(run'.calls, "fetch_article") = 1
          /\ Count(run'.calls, "fetch_comments") = 1
          /\ Count(run'.calls, "generate_report") = (IF run.kind = "miss" THEN 1 ELSE 0)
          /\ GlobReports(reports', run.story_id) # {}
          /\ contexts'[run.story_id].present
    ]_vars

\* C2 witness: a run that found a report file but no context file has ended
PartialRunEnded ==
  /\ run.pc = "done" /\ run.kind = "partial" /\ screen = "report"
  /\ Count(run.calls, "generate_report") = 0

MissOrder == <<"fetch_story", "fetch_article", "fetch_comments", "generate_report",
               "write_report", "write_context">>

\* C3: on a cache miss the steps taken so far are always an initial part of
\* fetch-story, fetch-article, fetch-comments, generate-report,
\* write-report-file, write-context-file, and a finished run took all six.
MissStepsInOrder ==
  run.kind = "miss" =>
    /\ IsPrefix(run.calls, MissOrder)
    /\ run.pc = "done" => run.calls = MissOrder

\* C3 witness: a cache-miss run has ended after its six steps
MissRunEnded == run.pc = "done" /\ run.kind = "miss" /\ Len(run.calls) = 6

\* C4: retry removes the screen's report file before the ProcessingScreen is
\* entered again, and the run entered by a retry is a full regeneration:
\* generate_report is called, a report file is written, and the context file
\* is overwritten with the run's fetched data and an empty chat_history.
RetryRegenerates ==
  [][/\ (screen = "report" /\ screen' = "processing") =>
          /\ run'.origin = "retry" /\ run'.pc = "start"
          /\ ~Exists(reports', rs.filename)
     /\ (RunEnds /\ run.origin = "retry") =>
          /\ Count(run'.calls, "generate_report") = 1
          /\ Count(run'.calls, "write_report") = 1
          /\ Exists(reports', rs'.filename)
          /\ contexts'[run.story_id] =
               NewContext(run.story, run.article_text, run.comments)
    ]_vars

\* C5: each story id has at most one report file and at most one context file
\* (the context file has one fixed name per id, so only reports can multiply).
OneReportPerStory ==
  \A s \in AllIds : Cardinality(GlobReports(reports, s)) <= 1

ReportWithoutContextReused ==
  [][/\ (RunStarts /\ GlobReports(reports, run.story_id) # {}
           /\ ~contexts[run.story_id].present) =>
          /\ run'.kind = "partial" /\ run'.calls = <<"fetch_story">>
     /\ (run.kind = "partial" /\ run.pc # "done" /\ run' # run) =>
          /\ reports' = reports
          /\ Count(run'.calls, "generate_report") = 0
     /\ (RunEnds /\ run.kind = "partial") =>
          /\ Count(run'.calls, "fetch_story") = 1
          /\ Count(run'.calls, "fetch_article") = 1
          /\ Count(run'.calls, "fetch_comments") = 1
          /\ screen' = "report"
          /\ \E f \in reports : /\ f.id = run.story_id
                                /\ rs'.filename = <<f.id, f.ts>>
                                /\ rs'.report_md = [body |-> f.body, chat |-> f.chat]
          /\ ~contexts[run.story_id].present
          /\ contexts'[run.story_id] =
               [present |-> TRUE, story |-> run.story, article_text |-> run.article_text,
                comments |-> run.comments, chat_history |-> <<>>]
          /\ rs'.story = run.story /\ rs'.article_text = run.article_text
          /\ rs'.comments = run.comments
    ]_vars

\* C8 witness: such a run has ended on the ReportScreen with the old report
ReportReused ==
  /\ run.pc = "done" /\ run.kind = "partial" /\ screen = "report"
  /\ rs.report_md.body = GoodReport /\ rs.filename[2] = 0
  /\ contexts[run.story_id].present /\ contexts[run.story_id].article_text \in Articles

\* C9: the sequence fetch_comments returns, and the sequence it has built at any
\* moment, is never longer than limit.
CommentsWithinLimit ==
  /\ Len(bfs.comments) <= bfs.limit
  /\ bfs.fetched_count = Len(bfs.comments)

\* C9 witness: a call returned exactly limit comments with ids still queued
LimitCutTraversal ==
  /\ bfs.pc = "done" /\ bfs.limit > 0 /\ Len(bfs.comments) = bfs.limit
  /\ bfs.queue # <<>>

\* the ids reachable from the roots through items that are not filtered
RECURSIVE Reach(_, _, _)
Reach(cfg, frontier, seen) ==
  IF frontier \subseteq seen THEN seen
  ELSE LET new == frontier \ seen
           kids == UNION {{FetchItem(cfg, i).kids[k] : k \in DOMAIN FetchItem(cfg, i).kids} :
                            i \in {j \in new : ~Skipped(FetchItem(cfg, j))}}
       IN Reach(cfg, kids, seen \cup new)

Reachable(cfg) ==
  Reach(cfg, {RootsOf(cfg.shape)[k] : k \in DOMAIN RootsOf(cfg.shape)}, {})

\* C10: no returned comment is deleted, dead or an empty fetch result, and an id
\* whose every path from the roots passes through such an item is neither
\* requested nor returned.
FilteredSubtreesDropped ==
  /\ \A k \in DOMAIN bfs.comments :
       /\ bfs.comments[k].id # None
       /\ ~bfs.comments[k].deleted /\ ~bfs.comments[k].dead
       /\ bfs.comments[k].id # bfs.cfg.bad
  /\ ({bfs.comments[k].id : k \in DOMAIN bfs.comments} \cup bfs.requested
        \cup {bfs.queue[k][1] : k \in DOMAIN bfs.queue}) \subseteq Reachable(bfs.cfg)

\* C10 witness: a call ended with its queue empty, having requested a filtered
\* item whose children were never requested while deeper comments were returned
SubtreeDropped ==
  /\ bfs.pc = "done" /\ bfs.queue = <<>> /\ bfs.cfg.bad \in bfs.requested
  /\ KidsOf(bfs.cfg.shape, bfs.cfg.bad) # <<>>
  /\ \A k \in DOMAIN KidsOf(bfs.cfg.shape, bfs.cfg.bad) :
       KidsOf(bfs.cfg.shape, bfs.cfg.bad)[k] \notin bfs.requested
  /\ \E k \in DOMAIN bfs.comments : bfs.comments[k].depth >= 1

\* the ids in a sequence of ids
Elems(s) == {s[k] : k \in DOMAIN s}

\* comment number k has a parent in the comments returned before it: a comment
\* one level up that lists k's id among its kids
HasParentAbove(cs, cfg, k) ==
  \E j \in 1..(k - 1) :
    /\ cs[j].depth + 1 = cs[k].depth
    /\ cs[k].id \in Elems(KidsOf(cfg.shape, cs[j].id))

\* C11: every recorded comment carries its BFS level: depth 0 exactly for the
\* comments fetched from the root ids, otherwise one more than the depth of a
\* comment recorded before it that lists it among its kids; the same holds for
\* the depth of every queued id, and the depths never decrease along the result.
DepthIsLevel ==
  /\ \A k \in DOMAIN bfs.comments :
       IF bfs.comments[k].depth = 0
         THEN bfs.comments[k].id \in Elems(RootsOf(bfs.cfg.shape))
         ELSE bfs.comments[k].depth > 0 /\ HasParentAbove(bfs.comments, bfs.cfg, k)
  /\ \A k \in DOMAIN bfs.comments : \A j \in 1..(k - 1) :
       bfs.comments[j].depth <= bfs.comments[k].depth
  /\ \A q \in DOMAIN bfs.queue :
       IF bfs.queue[q][2] = 0
         THEN bfs.queue[q][1] \in Elems(RootsOf(bfs.cfg.shape))
         ELSE \E j \in DOMAIN bfs.comments :
                /\ bfs.comments[j].depth + 1 = bfs.queue[q][2]
                /\ bfs.queue[q][1] \in Elems(KidsOf(bfs.cfg.shape, bfs.comments[j].id))

\* C11 witness: a call returned comments of three levels
ThreeLevelsReturned ==
  /\ bfs.pc = "done"
  /\ \E i, j, k \in DOMAIN bfs.comments :
       /\ bfs.comments[i].depth = 0 /\ bfs.comments[j].depth = 1
       /\ bfs.comments[k].depth = 2
       /\ bfs.comments[j].id \in Elems(KidsOf(bfs.cfg.shape, bfs.comments[i].id))
       /\ bfs.comments[k].id \in Elems(KidsOf(bfs.cfg.shape, bfs.comments[j].id))

\* the steps of the process_story worker
RunSteps ==
  \/ ProcessStart
  \/ \E s \in StoryIds : FetchStoryReturns(StoryOf(s)) /\ s = run.story_id
  \/ FetchStoryReturns(EmptyStory)
  \/ \E text \in Articles \cup {NoUrlText, FailedText} : FetchArticleReturns(text)
  \/ \E cs \in CommentLists \cup {<<>>} : FetchCommentsReturns(cs)
  \/ CloseReturns
  \/ \E body \in ReportBodies, now \in 1..MaxClock : GenerateReturns(body, now)
  \/ HitCloseReturns

\* C12: whichever of the story, article and comment fetches fail, the failure
\* arrives as a value ({} for the story, an error string for the article, fewer
\* or no comments): a processing run always has a next step until it has
\* transitioned, and a cache-miss run that has transitioned has written its
\* report file and its context file and shows the ReportScreen.
FetchFailuresAbsorbed ==
  /\ screen = "processing" => (run.pc # "done" /\ ENABLED RunSteps)
  /\ run.pc \in {"fetch_article", "fetch_comments", "close", "generate"} =>
       run.story \in {EmptyStory, StoryOf(run.story_id)}
  /\ run.pc \in {"fetch_comments", "close", "generate"} =>
       run.article_text \in {NoUrlText, FailedText} \cup Articles
  /\ (run.pc = "done" /\ run.kind = "miss" /\ screen = "report") =>
       /\ Exists(reports, rs.filename) /\ rs.filename[1] = run.story_id
       /\ contexts[run.story_id] = NewContext(rs.story, rs.article_text, rs.comments)
       /\ rs.story = EmptyStory => (rs.article_text = NoUrlText /\ rs.comments = <<>>)

\* C12 witness: a cache-miss run whose story fetch failed has transitioned
FailedRunEnded ==
  /\ run.pc = "done" /\ run.kind = "miss" /\ screen = "report"
  /\ rs.story = EmptyStory /\ rs.article_text = NoUrlText /\ rs.comments = <<>>
  /\ BothOnDisk(run.story_id)

\* C13: whenever generate_report returned its error string in a processing
\* run, the ReportScreen that shows it has is_error set (and so composes the
\* retry banner).
GenerationFailureRecognised ==
  (screen = "report" /\ run.pc = "done" /\ run.kind = "miss"
     /\ rs.report_md.body = ErrorReport) => rs.is_error

\* C14: generate_report and chat_with_context never raise: when the provider
\* could not be resolved or its chat call failed, the call returns the error
\* string of its method, and when the chat call succeeded it returns exactly
\* the provider's content.
AnalyzerNeverRaises ==
  /\ ~ana.raised
  /\ ana.pc = "done" =>
       /\ ana.outcome \in {"unresolved", "ok", "fail"}
       /\ ana.result = (IF ana.outcome = "ok" THEN Content
                        ELSE IF ana.op = "report" THEN ErrorReport ELSE ErrorAnswer)

\* C14 witness: a chat_with_context call whose provider could not be resolved
\* has returned, after a generate_report call whose backend call failed
ResolutionFailureReturned ==
  /\ ana.pc = "done" /\ ana.op = "chat" /\ ana.outcome = "unresolved"
  /\ ana.calls = 2 /\ ana.result = ErrorAnswer

\* C15: set_provider returns False, and leaves the provider object and the
\* environment as they were, when gemini is selected with no key in the
\* arguments or the environment and when the identifier is neither ollama nor
\* gemini.
ProviderSwitchRejects ==
  ana.last.ptype # "" =>
    /\ (ana.last.ptype = "gemini" /\ ~ana.last.had_key) =>
         (~ana.last.ok /\ ana.last.kept)
    /\ ana.last.ptype \notin {"ollama", "gemini"} => (~ana.last.ok /\ ana.last.kept)
    /\ ~ana.last.ok => ana.last.kept

\* C15 witness: gemini was selected without a key while an Ollama provider
\* with a chosen model was in place, and the provider is still in place
SwitchRejectedWithoutKey ==
  /\ ana.last.ptype = "gemini" /\ ~ana.last.had_key /\ ~ana.last.ok
  /\ ana.provider = OllamaProviderOf("m2") /\ ana.env.LLM_PROVIDER = "ollama"
  /\ ana.env.OLLAMA_MODEL = "m2"

\* C17: a call whose provider call succeeded has appended exactly one usage
\* record, of type report_generation for generate_report and chat_query for
\* chat_with_context, unless the write failed; a call that failed has appended
\* none; in every case the call returned without raising, with the provider's
\* content when the provider call succeeded.
UsageLoggedPerSuccess ==
  ana.pc = "done" =>
    /\ ~ana.raised
    /\ IF ana.outcome = "ok"
         THEN /\ ana.result = Content
              /\ IF ana.log_ok
                   THEN /\ Len(ana.stats) = ana.logged + 1
                        /\ ana.stats[Len(ana.stats)] =
                             (IF ana.op = "report" THEN "report_generation"
                              ELSE "chat_query")
                   ELSE Len(ana.stats) = ana.logged
         ELSE Len(ana.stats) = ana.logged

\* C17 witness: a generate_report call and then a chat_with_context call have
\* succeeded and each has left its usage record
BothCallsLogged ==
  /\ ana.pc = "done" /\ ana.outcome = "ok" /\ ana.log_ok
  /\ ana.stats = <<"report_generation", "chat_query">>

\* C16: the chat input of the ReportScreen is disabled exactly while a turn of
\* that screen is in flight, so a question is only ever submitted with no turn
\* in flight, and every turn that ends, with an answer, with the error string,
\* with an exception or with a failed write, leaves the input enabled.
ChatInputGuardsTurn ==
  /\ screen = "report" => (rs.disabled <=> rs.chat = "inflight")
  /\ (ev.kind \in {"chat", "raised"} /\ ev.on_stack /\ screen = "report") =>
       (~rs.disabled /\ rs.chat = "idle")

\* C16 witness: a turn has ended with an exception and the input is enabled
RaisedTurnEnded ==
  /\ screen = "report" /\ ev.kind = "raised" /\ ~rs.disabled /\ rs.chat = "idle"

\* C18: fetch_article_text returns "No URL provided." for an empty or absent
\* URL and "PDF content extraction not supported." for every URL that ends in
\* .pdf, and has sent no request in either case; a request is only ever sent
\* for a URL that is present and does not end in .pdf.
ArticleShortcuts ==
  /\ art.pc = "done" =>
       /\ (art.url = NoUrl \/ art.url = <<>>) =>
            (art.result = NoUrlText /\ art.requests = 0)
       /\ (art.url # NoUrl /\ Len(art.url) >= 4
             /\ SubSeq(art.url, Len(art.url) - 3, Len(art.url)) = <<".", "p", "d", "f">>) =>
            (art.result = PdfText /\ art.requests = 0)
  /\ art.requests > 0 =>
       /\ art.url # NoUrl /\ art.url # <<>>
       /\ ~(Len(art.url) >= 4
             /\ SubSeq(art.url, Len(art.url) - 3, Len(art.url)) = <<".", "p", "d", "f">>)

\* C18 witness: the call for a URL ending in .pdf returned with no request sent
PdfUrlReturned ==
  /\ art.pc = "done" /\ art.url = <<"x", ".", "p", "d", "f">>
  /\ art.result = PdfText /\ art.requests = 0

\* the positions of the ranked list that page and limit select and whose item
\* fetch did not come back empty
KeptPositions(t) ==
  {k \in DOMAIN t.all_ids :
     /\ (t.page - 1) * t.limit < k /\ k <= t.page * t.limit
     /\ t.all_ids[k] \notin t.failing}

\* C19: when the ranked id list was fetched, fetch_top_stories returns the
\* items of the ids at positions [(page-1)*limit, page*limit) of the list, in
\* ranked order, without the items whose fetch came back empty, so at most
\* limit items; when the list could not be fetched it returns the empty list.
TopStoriesIsPageSlice ==
  top.pc = "done" =>
    IF top.list_ok
      THEN /\ Len(top.result) = Cardinality(KeptPositions(top))
           /\ Len(top.result) <= top.limit
           /\ \A j \in DOMAIN top.result :
                \E k \in KeptPositions(top) :
                  /\ Cardinality({i \in KeptPositions(top) : i < k}) = j - 1
                  /\ top.result[j] = [id |-> top.all_ids[k]]
      ELSE top.result = <<>>

\* C19 witness: the second page of a list was returned with one of its items
\* dropped, the last fetch of the slice having completed first
SecondPageReturned ==
  /\ top.pc = "done" /\ top.list_ok /\ top.page = 2 /\ top.limit = 2
  /\ Len(top.ids) = 2 /\ Len(top.result) = 1 /\ top.first_done = 2

\* C20: every call of fetch_comments returns, whatever the item map (failed
\* fetches and kids that lead back to ids already visited included) and
\* whatever the limit, and when it returns it has recorded limit comments or
\* its queue is empty.
CommentsTerminate ==
  <>(bfs.pc = "done" /\ (Len(bfs.comments) >= bfs.limit \/ bfs.queue = <<>>))

\* C20 witness: a call on a cycle of kids returned after recording more
\* comments than there are items
CycleTraversalReturned ==
  /\ bfs.pc = "done" /\ bfs.cfg.shape = "ring" /\ bfs.cfg.bad = None
  /\ Len(bfs.comments) = bfs.limit /\ bfs.limit > NumItems /\ bfs.queue # <<>>

\* the number of failures before the first success in a script
RECURSIVE FailuresFirst(_)
FailuresFirst(script) ==
  IF script = <<>> \/ Head(script) = "ok" THEN 0 ELSE 1 + FailuresFirst(Tail(script))

\* C7: when the backend fails N < 3 times and then succeeds, chat returns the
\* content after exactly N + 1 backend calls; when it fails 3 times, the
\* exception leaves chat after exactly 3 backend calls.
GeminiRetriesThreeTimes ==
  gem.pc = "done" =>
    LET n == FailuresFirst(gem.script)
    IN IF n < MaxAttempts
         THEN gem.result = "content" /\ gem.calls = n + 1
         ELSE gem.result = "raised" /\ gem.calls = MaxAttempts

(***************************************************************************)
(* C21. The order of the sequence fetch_comments returns. The ids leave    *)
(* the queue first in, first out, and the results of a batch are handled   *)
(* in the order of the batch, so the sequence returned is the one a        *)
(* traversal fetching one id at a time would return.                       *)
(***************************************************************************)
RECURSIVE OneAtATime(_, _, _, _, _)
OneAtATime(cfg, queue, comments, count, limit) ==
  IF queue = <<>> \/ count >= limit
    THEN comments
  ELSE IF Skipped(FetchItem(cfg, Head(queue)[1]))
    THEN OneAtATime(cfg, Tail(queue), comments, count, limit)
  ELSE OneAtATime(cfg,
                  Tail(queue) \o Children(FetchItem(cfg, Head(queue)[1]), Head(queue)[2]),
                  Append(comments, Tagged(FetchItem(cfg, Head(queue)[1]), Head(queue)[2])),
                  count + 1, limit)

\* C21 as stated: within a batch the output follows the order in which the
\* fetches complete, so the comment of the fetch that completes first (when it
\* is kept) is the first one the batch adds to the output.
OrderFollowsCompletion ==
  [][(bfs.pc = "gather" /\ bfs'.pc = "loop"
      /\ ~Skipped(FetchItem(bfs.cfg, bfs.batch[bfs'.first_done][1])))
     => bfs'.comments[Len(bfs.comments) + 1].id = bfs.batch[bfs'.first_done][1]]_vars

\* C21 as amended: whatever order the fetches of a batch complete in, the
\* sequence returned is in the order in which the ids were enqueued: the same
\* item data and limit always give the same output, the one of a first-in
\* first-out traversal that fetches a single id at a time.
OrderIsQueueOrder ==
  bfs.pc = "done" =>
    bfs.comments = OneAtATime(bfs.cfg, NewTraversal(bfs.cfg, bfs.limit).queue,
                              <<>>, 0, bfs.limit)

\* a call returned several comments of a batch whose first fetch to complete
\* was not the first one of the batch
LaterFetchCompletedFirst ==
  /\ bfs.pc = "done" /\ bfs.first_done > 1
  /\ Len(bfs.comments) >= 3
  /\ bfs.comments[1].id # bfs.comments[2].id


(***************************************************************************)
(* C22. Retry. The ReportScreen was opened for the story id of its run     *)
(* (ctxid); the retry builds the new ProcessingScreen from                 *)
(* str(self.story.get("id")).                                              *)
(***************************************************************************)
\* C22 as stated: whenever a retry leaves the ReportScreen, a processing run
\* for the story id the screen was opened for starts, also when the story
\* record the screen holds is empty.
RetryRestartsSameStory ==
  [][(screen = "report" /\ screen' \notin {"report", "dashboard"})
     => (screen' = "processing" /\ run'.pc = "start" /\ run'.story_id = rs.ctxid)]_vars


(***************************************************************************)
(* C23. The provider resolved from the environment on the first use of     *)
(* Analyzer.provider.                                                      *)
(***************************************************************************)
\* C23 as stated: once a call of generate_report or chat_with_context has used
\* the provider property, the provider is the Ollama one when LLM_PROVIDER
\* does not select gemini (and the call reached provider.chat instead of
\* returning the error string), and the Gemini one when LLM_PROVIDER selects
\* gemini and the credential and the package are present; it is never None.
DefaultProviderResolved ==
  (ana.pc \in {"await", "done"} /\ ana.calls > 0 /\ ana.last = NoSetting) =>
    LET selected == Lower(GetEnv(ana.env, "LLM_PROVIDER", "ollama"))
    IN /\ selected # "gemini" =>
            (ana.provider.kind = "ollama" /\ ana.outcome # "unresolved")
       /\ (selected = "gemini" /\ ~Falsy(ana.env.GEMINI_API_KEY) /\ ana.has_gemini) =>
            ana.provider.kind = "gemini"


(***************************************************************************)
(* C24. The list chat_with_context passes to provider.chat. history is the *)
(* argument of the call, caller the caller's list once the list was built. *)
(***************************************************************************)
\* C24: when chat_with_context awaits provider.chat, the list it sent holds
\* the prior history turns in their order followed by exactly one more turn,
\* the user turn with the context prompt (so a None or empty history sends one
\* message), and the caller's history list is as it was passed.
ChatSendsHistoryThenPrompt ==
  (ana.pc = "await" /\ ana.op = "chat") =>
    LET prior == IF ana.history = NoHistory THEN <<>> ELSE ana.history
    IN /\ Len(ana.sent) = Len(prior) + 1
       /\ \A k \in 1..Len(prior) : ana.sent[k] = prior[k]
       /\ ana.sent[Len(prior) + 1] = "prompt"
       /\ ana.caller = ana.history

\* C24 witness: a chat call with two prior turns is awaiting its provider
PriorTurnsSent ==
  /\ ana.pc = "await" /\ ana.op = "chat"
  /\ Len(ana.history) = 2 /\ ana.history # NoHistory /\ Len(ana.sent) = 3


(***************************************************************************)
(* C25. The HNClient of each worker: clients counts the clients the worker *)
(* made, closed the close() calls of it that returned.                     *)
(***************************************************************************)
\* a worker that made one client and has not closed it, one that has closed it
\* once, one that has made none
OpenClient(r) == r.clients = 1 /\ r.closed = 0
ClosedOnce(r) == r.clients = 1 /\ r.closed = 1
NoClient(r) == r.clients = 0 /\ r.closed = 0

\* C25: every load_stories worker and every processing run makes one HNClient
\* of its own when it starts and has closed it exactly once when it completes:
\* the client is open while the worker fetches, closed before the report is
\* generated and when the ReportScreen is pushed, on the cache-hit path, the
\* fetch path and after failed fetches alike.
ClientsClosedOnce ==
  /\ run.pc \in {"none", "start"} => NoClient(run)
  /\ run.pc \in {"fetch_story", "fetch_article", "fetch_comments", "close", "hit_close"}
       => OpenClient(run)
  /\ run.pc \in {"generate", "done"} => ClosedOnce(run)
  /\ screen = "report" => ClosedOnce(run)
  /\ \A w \in DOMAIN dash.workers :
       LET load == dash.workers[w]
       IN /\ load.pc = "scheduled" => NoClient(load)
          /\ load.pc \in {"fetch", "close"} => OpenClient(load)
          /\ load.pc = "done" => ClosedOnce(load)

\* C25 witness: a cache-hit run has pushed its ReportScreen, a story-list load
\* whose request failed has completed, and another load is still fetching
HitRunAndFailedLoadEnded ==
  /\ screen = "report" /\ run.pc = "done" /\ run.kind = "hit"
  /\ \E w \in DOMAIN dash.workers : dash.workers[w].pc = "done" /\ ~dash.workers[w].ok
  /\ \E w \in DOMAIN dash.workers : dash.workers[w].pc = "fetch"


(***************************************************************************)
(* C26. Completeness of fetch_comments below the limit.                    *)
(***************************************************************************)
\* the comments of the item map: the reachable ids whose item is not filtered
KeptReachable(cfg) == {i \in Reachable(cfg) : ~Skipped(FetchItem(cfg, i))}

\* the places where an id is listed: the positions of the root ids and the
\* positions in the kids of the comments of the item map
KidListings(cfg, kept) ==
  UNION {{<<j, k>> : k \in DOMAIN KidsOf(cfg.shape, j)} : j \in kept}

ListedIds(cfg, kept) ==
  Elems(RootsOf(cfg.shape)) \cup UNION {Elems(KidsOf(cfg.shape, j)) : j \in kept}

\* no id is listed in two places
NoIdTwice(cfg) ==
  LET kept == KeptReachable(cfg)
  IN Len(RootsOf(cfg.shape)) + Cardinality(KidListings(cfg, kept))
       = Cardinality(ListedIds(cfg, kept))

\* C26: when no id is listed twice and the item map has at most limit
\* comments (items reached from the roots through items that were fetched and
\* are neither deleted nor dead, and that are such items themselves), the
\* sequence fetch_comments returns holds each of them exactly once.
AllCommentsReturnedOnce ==
  bfs.pc = "done" =>
    LET kept == KeptReachable(bfs.cfg)
    IN (Cardinality(kept) <= bfs.limit /\ NoIdTwice(bfs.cfg)) =>
         /\ {bfs.comments[k].id : k \in DOMAIN bfs.comments} = kept
         /\ Len(bfs.comments) = Cardinality(kept)

\* C26 witness: a call returned exactly limit comments, more than one batch of
\* them, from an item map with a filtered item and no id listed twice
WholeTreeReturnedAtLimit ==
  /\ bfs.pc = "done" /\ NoIdTwice(bfs.cfg) /\ bfs.cfg.bad \in bfs.requested
  /\ Cardinality(KeptReachable(bfs.cfg)) = bfs.limit
  /\ Len(bfs.comments) = bfs.limit /\ bfs.limit > BatchSize


(***************************************************************************)
(* C27. Persisting then reloading. Reopened(s, f) is the ReportScreen a    *)
(* cache-hit run for story s builds from the files on disk now.            *)
(***************************************************************************)
Reopened(s, f) ==
  LET r == StartHit(NewRun(s, "select"), f, contexts[s])
  IN NewReportScreen(r, r.report, r.filename)

\* C27 as stated: while a ReportScreen holds nothing that a turn of its own
\* failed to write, re-opening its story as a cache hit gives a ReportScreen
\* with the same chat_history, story, article_text and comments.
ReloadRestoresScreen ==
  (screen = "report" /\ rs.chat = "idle" /\ rs.saved
     /\ IsCacheHit(GlobReports(reports, rs.ctxid), contexts[rs.ctxid])) =>
    \A f \in GlobReports(reports, rs.ctxid) :
      /\ Reopened(rs.ctxid, f).chat_history = rs.chat_history
      /\ Reopened(rs.ctxid, f).story = rs.story
      /\ Reopened(rs.ctxid, f).article_text = rs.article_text
      /\ Reopened(rs.ctxid, f).comments = rs.comments


(***************************************************************************)
(* C28. The dashboard's table after overlapping loads.                     *)
(***************************************************************************)
\* C28 as stated: the page number is never below 1, and once every
\* load_stories worker has completed (none of them with a failed request) the
\* table holds the stories of the page the title shows, ranked from that
\* page's first rank, whatever order the loads completed in.
TableShowsTitlePage ==
  /\ dash.page >= 1
  /\ (\A w \in DOMAIN dash.workers : dash.workers[w].pc = "done" /\ dash.workers[w].ok)
       => dash.rows = Rows(TopStoriesOf(dash.title, dash.limit),
                           StartRank(dash.title, dash.limit))


====
